---------------------------- MODULE Spec2Model ----------------------------
(***************************************************************************)
(* A model of owl_server/k8s.py: the job-object builder                    *)
(* (kube_create_job_object), the job lifecycle calls (kube_create_job,     *)
(* kube_delete_job) and the bulk pod cleanup (kube_delete_empty_pods).     *)
(* The Kubernetes API server is the environment: its pods and jobs are     *)
(* state the module reads and changes only through its API calls, and any  *)
(* API call may fail with the client's ApiException.                       *)
(***************************************************************************)
EXTENDS Integers, Sequences, FiniteSets, TLC

(***************************************************************************)
(* Bounds of the model.                                                    *)
(***************************************************************************)
MaxPods == 4
MaxEnv == 2

(***************************************************************************)
(* Python values.  None is a value of its own; a value that str() is       *)
(* applied to is an int or a str.                                          *)
(***************************************************************************)
None == "<None>"
EmptyStr == ""

PyInt(n) == [t |-> "int", n |-> n]
PyStr(s) == [t |-> "str", s |-> s]

Digit(d) ==
    CASE d = 0 -> "0" [] d = 1 -> "1" [] d = 2 -> "2" [] d = 3 -> "3"
      [] d = 4 -> "4" [] d = 5 -> "5" [] d = 6 -> "6" [] d = 7 -> "7"
      [] d = 8 -> "8" [] d = 9 -> "9"

RECURSIVE NatToStr(_)
NatToStr(n) == IF n < 10 THEN Digit(n) ELSE NatToStr(n \div 10) \o Digit(n % 10)

\* str(value) of lines 117 and 125-128
str(v) ==
    IF v.t = "int"
    THEN (IF v.n < 0 THEN "-" \o NatToStr(0 - v.n) ELSE NatToStr(v.n))
    ELSE v.s

\* x or y, for a str-or-None x: None and the empty string are falsy
OrDefault(x, dflt) == IF x = None \/ x = EmptyStr THEN dflt ELSE x

(***************************************************************************)
(* str.split() with no argument: the maximal runs of non-blank characters. *)
(* A command string is a sequence of one-character strings.                *)
(***************************************************************************)
RECURSIVE SplitFrom(_, _, _)
SplitFrom(s, i, cur) ==
    IF i > Len(s)
    THEN (IF cur = "" THEN <<>> ELSE <<cur>>)
    ELSE IF s[i] = " "
         THEN (IF cur = "" THEN <<>> ELSE <<cur>>) \o SplitFrom(s, i + 1, "")
         ELSE SplitFrom(s, i + 1, cur \o s[i])

split(s) == SplitFrom(s, 1, "")

\* the literal "sleep 60" of lines 102 and 194
DefaultCommand == <<"s", "l", "e", "e", "p", " ", "6", "0">>
NoCommand == <<>>

(***************************************************************************)
(* Dictionaries.  An insertion-ordered dict whose items are iterated       *)
(* (env_vars) is the sequence of its <<key, value>> items; a dict that is  *)
(* only indexed by key is a function on its keys.                          *)
(***************************************************************************)
NoDict == [kind |-> "None"]
Dict(d) == [kind |-> "dict", d |-> d]

EnvNone == [none |-> TRUE, items |-> <<>>]
EnvDict(items) == [none |-> FALSE, items |-> items]

\* env_vars or {} (line 100): None and the empty dict are falsy
EnvOrEmpty(e) == IF e.none THEN <<>> ELSE e.items

(***************************************************************************)
(* The client library's model classes.  The fields each class accepts      *)
(* are the keyword arguments of its constructor.                           *)
(***************************************************************************)
V1VolumeMountFields == {"name", "mount_path", "read_only", "sub_path"}
V1VolumeFields == {"name", "empty_dir", "host_path", "persistent_volume_claim"}
V1SecurityContextFields == {"run_as_user", "run_as_group", "privileged"}
V1PodSecurityContextFields == {"run_as_user", "run_as_group", "fs_group"}

SchemaOf(cls) ==
    CASE cls = "V1VolumeMount" -> V1VolumeMountFields
      [] cls = "V1Volume" -> V1VolumeFields
      [] cls = "V1SecurityContext" -> V1SecurityContextFields
      [] cls = "V1PodSecurityContext" -> V1PodSecurityContextFields

\* utils._make_spec_from_dict: the generic key-value to structured-field
\* conversion; a key the target class does not know is an error.
MakeSpecOk(d, cls) == DOMAIN d \subseteq SchemaOf(cls)
_make_spec_from_dict(d, cls) == [cls |-> cls, fields |-> d]

V1EnvVar(name, value) == [name |-> name, value |-> value]


(***************************************************************************)
(* kube_create_job_object: the builder.                                    *)
(***************************************************************************)
NoJob == [kind |-> "none"]
Raised(e) == [exc |-> e, job |-> NoJob]
Built(job) == [exc |-> "none", job |-> job]
NotBuilt == [exc |-> "pending", job |-> NoJob]

\* lines 115-117: one V1EnvVar per item of env_vars, in the dict's order
UserEnv(items) ==
    [i \in 1..Len(items) |-> V1EnvVar(items[i][1], str(items[i][2]))]

\* lines 121-128: the four entries appended when resources is not None
ResourceEnv(resources) ==
    << V1EnvVar("CPU_REQUESTS", str(resources["requests"]["cpu"])),
       V1EnvVar("MEM_REQUESTS", str(resources["requests"]["memory"])),
       V1EnvVar("CPU_LIMITS", str(resources["limits"]["cpu"])),
       V1EnvVar("MEM_LIMITS", str(resources["limits"]["memory"])) >>

\* lines 121-124 raise KeyError when one of the four keys is missing
ResourceKeysPresent(resources) ==
    /\ {"requests", "limits"} \subseteq DOMAIN resources
    /\ {"cpu", "memory"} \subseteq DOMAIN resources["requests"]
    /\ {"cpu", "memory"} \subseteq DOMAIN resources["limits"]

\* lines 115-130: env_list as passed to V1Container
EnvListMisplaced(items, resources) ==
    IF resources.kind = "None"
    THEN UserEnv(items)
    ELSE ResourceEnv(resources.d) \o UserEnv(items)

EnvList(items, resources) ==
    IF resources.kind = "None"
    THEN UserEnv(items)
    ELSE UserEnv(items) \o ResourceEnv(resources.d)

\* lines 119-120, 129-130: resourcesReq
ResourcesReq(resources) ==
    IF resources.kind = "None"
    THEN NoDict
    ELSE [cls |-> "V1ResourceRequirements", fields |-> resources.d]

\* lines 136-139 and 156-159: secReq
SecReq(ctx, cls) ==
    IF ctx.kind = "None" THEN NoDict ELSE _make_spec_from_dict(ctx.d, cls)

\* lines 132-134 and 152-154: one converted object per listed dict
SpecList(dicts, cls) ==
    [i \in 1..Len(dicts) |-> _make_spec_from_dict(dicts[i], cls)]

AllSpecsOk(dicts, cls) == \A i \in 1..Len(dicts) : MakeSpecOk(dicts[i], cls)

\* lines 141-150
V1Container(name, image, env, args, resources, volume_mounts, security_context) ==
    [ name |-> name,
      image |-> image,
      env |-> env,
      image_pull_policy |-> "IfNotPresent",
      args |-> args,
      resources |-> resources,
      volume_mounts |-> volume_mounts,
      security_context |-> security_context ]

\* lines 161-169
V1PodSpecRestarting(container, volumes, service_account_name, security_context, node_selector) ==
    [ containers |-> <<container, container>>,
      restart_policy |-> "OnFailure",
      termination_grace_period_seconds |-> 30,
      volumes |-> volumes,
      service_account_name |-> service_account_name,
      security_context |-> security_context,
      node_selector |-> node_selector ]

V1PodSpec(container, volumes, service_account_name, security_context, node_selector) ==
    [ containers |-> <<container>>,
      restart_policy |-> "Never",
      termination_grace_period_seconds |-> 30,
      volumes |-> volumes,
      service_account_name |-> service_account_name,
      security_context |-> security_context,
      node_selector |-> node_selector ]

\* lines 172-174
V1JobSpec(podspec) ==
    [ ttl_seconds_after_finished |-> 300,
      template |-> [spec |-> podspec],
      backoff_limit |-> 2 ]

\* lines 105-110 and 172-175
V1Job(namespace, name, spec) ==
    [ kind |-> "Job",
      api_version |-> "batch/v1",
      metadata |-> [namespace |-> namespace, name |-> name],
      spec |-> spec ]

\* lines 66-175, in the order the statements run: the first failing
\* statement decides the exception
kube_create_job_object(name, container_image, command, namespace, container_name, env_vars, extraConfig, service_account_name) ==
    LET items == EnvOrEmpty(env_vars)
        ns == OrDefault(namespace, "default")
        cmd == IF command = NoCommand THEN DefaultCommand ELSE command
        cname == OrDefault(container_name, "jobcontainer")
    IN  IF extraConfig.kind # "config"
        THEN Raised("AttributeError")
        ELSE IF extraConfig.resources.kind # "None"
                /\ ~ResourceKeysPresent(extraConfig.resources.d)
        THEN Raised("KeyError")
        ELSE IF ~AllSpecsOk(extraConfig.volumeMounts, "V1VolumeMount")
        THEN Raised("SchemaMappingError")
        ELSE IF extraConfig.securityContext.kind # "None"
                /\ ~MakeSpecOk(extraConfig.securityContext.d, "V1SecurityContext")
        THEN Raised("SchemaMappingError")
        ELSE IF ~AllSpecsOk(extraConfig.volumes, "V1Volume")
        THEN Raised("SchemaMappingError")
        ELSE IF extraConfig.podSecurityContext.kind # "None"
                /\ ~MakeSpecOk(extraConfig.podSecurityContext.d, "V1PodSecurityContext")
        THEN Raised("SchemaMappingError")
        ELSE Built(V1Job(ns, name, V1JobSpec(V1PodSpec(
                 V1Container(cname, container_image,
                             EnvList(items, extraConfig.resources),
                             split(cmd),
                             ResourcesReq(extraConfig.resources),
                             SpecList(extraConfig.volumeMounts, "V1VolumeMount"),
                             SecReq(extraConfig.securityContext, "V1SecurityContext")),
                 SpecList(extraConfig.volumes, "V1Volume"),
                 service_account_name,
                 SecReq(extraConfig.podSecurityContext, "V1PodSecurityContext"),
                 extraConfig.node_selector))))


(***************************************************************************)
(* The inputs of the builder.                                              *)
(***************************************************************************)
JobNames == {"job-a", "job-b"}
Namespaces == {"default", "owl"}
Images == {None, "owl:latest"}
Commands == {NoCommand, <<"l", "s", " ", " ", "-", "l", " ">>}

EnvNames == {"A", "B", "C"}
EnvValues == {PyInt(-12), PyStr("x")}
DistinctKeys(items) ==
    \A i, j \in 1..Len(items) : i # j => items[i][1] # items[j][1]
EnvItemSeqs ==
    { items \in UNION { [1..k -> EnvNames \X EnvValues] : k \in 0..MaxEnv } :
        DistinctKeys(items) }
EnvInputs == {EnvNone} \cup { EnvDict(items) : items \in EnvItemSeqs }

FullResources ==
    [ requests |-> [cpu |-> PyInt(2), memory |-> PyStr("4Gi")],
      limits |-> [cpu |-> PyStr("2500m"), memory |-> PyInt(8192)] ]
RequestsOnly == [ requests |-> [cpu |-> PyInt(2), memory |-> PyStr("4Gi")] ]
ResourceInputs == {NoDict, Dict(FullResources), Dict(RequestsOnly)}

GoodMount == [name |-> "data", mount_path |-> "/data"]
BadMount == [name |-> "data", mountPath |-> "/data"]
MountInputs == {<<>>, <<GoodMount>>, <<GoodMount, BadMount>>}

GoodVolume == [name |-> "data", empty_dir |-> "{}"]
BadVolume == [name |-> "data", emptyDir |-> "{}"]
VolumeInputs == {<<>>, <<GoodVolume>>, <<BadVolume>>}

SecurityInputs == {NoDict, Dict([run_as_user |-> "1000"]), Dict([runAsUser |-> "1000"])}
PodSecurityInputs == {NoDict, Dict([fs_group |-> "100"]), Dict([fsGroup |-> "100"])}
NodeSelectorInputs == {NoDict, Dict([pool |-> "batch"])}

\* an extraConfig object, as the attributes lines 119-168 read
ExtraConfig(resources, volumeMounts, securityContext, volumes, podSecurityContext, node_selector) ==
    [ kind |-> "config",
      resources |-> resources,
      volumeMounts |-> volumeMounts,
      securityContext |-> securityContext,
      volumes |-> volumes,
      podSecurityContext |-> podSecurityContext,
      node_selector |-> node_selector ]

NoExtraConfig == [kind |-> "None"]
EmptyDictConfig == [kind |-> "dict"]

ExtraConfigObjects ==
    { ExtraConfig(r, vm, sc, v, psc, nsel) :
        r \in ResourceInputs, vm \in MountInputs, sc \in SecurityInputs,
        v \in VolumeInputs, psc \in PodSecurityInputs, nsel \in NodeSelectorInputs }

BuildRequests ==
    [ name : {None, "job-a"},
      image : Images,
      command : Commands,
      namespace : {None, "owl"},
      env_vars : EnvInputs,
      extraConfig : {NoExtraConfig} \cup ExtraConfigObjects,
      service_account_name : {None} ]

NoRequest ==
    [ name |-> None, image |-> None, command |-> NoCommand, namespace |-> None,
      env_vars |-> EnvNone, extraConfig |-> NoExtraConfig,
      service_account_name |-> None ]

(***************************************************************************)
(* The inputs of kube_create_job and kube_delete_job.                      *)
(***************************************************************************)
MountedConfig == ExtraConfig(Dict(FullResources), <<GoodMount>>, NoDict, <<GoodVolume>>, NoDict, NoDict)
BadMountConfig == ExtraConfig(NoDict, <<BadMount>>, NoDict, <<>>, NoDict, NoDict)

JobRequests ==
    [ name : JobNames,
      image : Images,
      command : {NoCommand},
      namespace : {None, "owl"},
      env_vars : {EnvNone},
      extraConfig : {NoExtraConfig, MountedConfig, BadMountConfig},
      service_account_name : {None} ]

DeleteRequests ==
    [ name : JobNames,
      image : {None},
      command : {NoCommand},
      namespace : {None, "owl"},
      env_vars : {EnvNone},
      extraConfig : {NoExtraConfig},
      service_account_name : {None} ]

(***************************************************************************)
(* State.                                                                  *)
(***************************************************************************)
VARIABLES
    request,    \* the arguments of the call in progress
    body,       \* what kube_create_job_object returned or raised
    jobs,       \* API server: the live jobs, as <<namespace, name>>
    jpc,        \* where kube_create_job / kube_delete_job stands
    op,         \* which of the two is running
    authCalls,  \* load_incluster_config() calls of this invocation
    apiCalls,   \* the API requests this invocation has issued, in order
    res,        \* what the invocation returned or raised
    hist,       \* the last two finished invocations, oldest first
    cluster,    \* API server: each pod's phase, or Absent
    ppc,        \* where kube_delete_empty_pods stands
    target,     \* its namespace and phase, after lines 30-31
    pods,       \* the local variable pods: the listed items, or unbound
    idx,        \* the position of the for loop of line 42 in pods.items
    deleteCalls, \* the pods delete_namespaced_pod was called for, in order
    log,        \* what lines 50, 53 and 59 logged, one entry per pod
    pres,       \* what kube_delete_empty_pods returned or raised
    last,       \* the previous invocation: its target, whether it returned
                \* with every delete call succeeding, and how many it deleted
    created,    \* a pod appeared since the previous invocation ended
    changed,    \* a pod changed phase since the previous invocation ended
    again,      \* this invocation repeats the previous one, which returned,
                \* and no pod was created between the two
    againClean  \* ... and every delete call of the previous one succeeded,
                \* and no pod changed phase between the two

buildVars == <<request, body>>
jobVars == <<jobs, jpc, op, authCalls, apiCalls, res, hist>>
podVars == <<cluster, ppc, target, pods, idx, deleteCalls, log, pres, last, created, changed, again, againClean>>
vars == <<request, body, jobs, jpc, op, authCalls, apiCalls, res, hist, cluster, ppc, target, pods, idx, deleteCalls, log, pres, last, created, changed, again, againClean>>

Pending == [exc |-> "pending", status |-> 0]
Returned == [exc |-> "none", status |-> 200]
Exception(e, status) == [exc |-> e, status |-> status]

PodNames == 1..MaxPods
PodPhases == {"Running", "Succeeded", "Failed"}
Absent == "absent"

\* the namespace a pod name belongs to
NsOf(p) == IF p = 1 THEN "owl" ELSE "default"

PyNone == [t |-> "None"]
Unbound == [bound |-> FALSE, items |-> <<>>]
PodList(items) == [bound |-> TRUE, items |-> items]
NoTarget == [namespace |-> None, phase |-> None]
PodsPending == [exc |-> "pending", value |-> PyNone]
NoLast == [returned |-> FALSE, target |-> NoTarget, clean |-> FALSE, deleted |-> 0]

InitPodVars ==
    /\ ppc = "idle"
    /\ target = NoTarget
    /\ pods = Unbound
    /\ idx = 1
    /\ deleteCalls = <<>>
    /\ log = <<>>
    /\ pres = PodsPending
    /\ last = NoLast
    /\ created = FALSE
    /\ changed = FALSE
    /\ again = FALSE
    /\ againClean = FALSE

InitJobVars ==
    /\ jpc = "idle"
    /\ op = "none"
    /\ authCalls = 0
    /\ apiCalls = <<>>
    /\ res = Pending
    /\ hist = <<>>

(***************************************************************************)
(* The builder alone: kube_create_job_object applied to each request.      *)
(***************************************************************************)
InitBuild ==
    /\ request \in BuildRequests
    /\ body = NotBuilt
    /\ jobs = {}
    /\ InitJobVars
    /\ cluster = [p \in PodNames |-> Absent]
    /\ InitPodVars

BuildJobObject ==
    /\ body = NotBuilt
    /\ body' = kube_create_job_object(request.name, request.image,
                   request.command, request.namespace, None,
                   request.env_vars, request.extraConfig,
                   request.service_account_name)
    /\ UNCHANGED <<request, jobVars, podVars>>

NextBuild == BuildJobObject

SpecBuild == InitBuild /\ [][NextBuild]_vars

(***************************************************************************)
(* kube_create_job and kube_delete_job against the API server.             *)
(***************************************************************************)
\* lines 187-203: build the body, load the credentials, send the request
kube_create_job_load_first == <<"load", "build", "request">>

kube_create_job_steps == <<"build", "load", "request">>

\* lines 206-216
kube_delete_job_steps == <<"load", "request">>

StepsOf(o) == IF o = "create" THEN kube_create_job_steps ELSE kube_delete_job_steps

\* the statement after step s; the last statement is the return
After(o, s) ==
    LET steps == StepsOf(o)
        i == CHOOSE k \in 1..Len(steps) : steps[k] = s
    IN  IF i < Len(steps) THEN steps[i + 1] ELSE "returned"

Namespace(req) == OrDefault(req.namespace, "default")

LastTwo(h) == IF Len(h) > 2 THEN Tail(h) ELSE h

\* the invocation ends, by return or by an exception that reaches the caller
Finish(r) ==
    /\ res' = r
    /\ jpc' = IF r.exc = "none" THEN "returned" ELSE "raised"
    /\ hist' = LastTwo(Append(hist,
                 [ op |-> op, namespace |-> Namespace(request),
                   name |-> request.name, ok |-> (r.exc = "none") ]))

Idle == jpc \in {"idle", "returned", "raised"}

CallCreateJob ==
    /\ Idle
    /\ \E req \in JobRequests : request' = req
    /\ op' = "create"
    /\ jpc' = kube_create_job_steps[1]
    /\ body' = NotBuilt
    /\ authCalls' = 0
    /\ apiCalls' = <<>>
    /\ res' = Pending
    /\ UNCHANGED <<jobs, hist, podVars>>

CallDeleteJob ==
    /\ Idle
    /\ \E req \in DeleteRequests : request' = req
    /\ op' = "delete"
    /\ jpc' = kube_delete_job_steps[1]
    /\ body' = NotBuilt
    /\ authCalls' = 0
    /\ apiCalls' = <<>>
    /\ res' = Pending
    /\ UNCHANGED <<jobs, hist, podVars>>

\* lines 189-197
CreateBuild ==
    /\ jpc = "build"
    /\ LET b == kube_create_job_object(request.name, request.image,
                    IF request.command = NoCommand THEN DefaultCommand
                                                   ELSE request.command,
                    Namespace(request), None, request.env_vars,
                    IF request.extraConfig.kind = "None" THEN EmptyDictConfig
                                                         ELSE request.extraConfig,
                    request.service_account_name)
       IN  /\ body' = b
           /\ IF b.exc = "none"
              THEN /\ jpc' = After(op, "build")
                   /\ UNCHANGED <<res, hist>>
              ELSE Finish(Exception(b.exc, 0))
    /\ UNCHANGED <<request, jobs, op, authCalls, apiCalls, podVars>>

\* lines 199 and 207: config.load_incluster_config()
LoadConfig ==
    /\ jpc = "load"
    /\ authCalls' = authCalls + 1
    /\ \/ /\ jpc' = After(op, "load")
          /\ UNCHANGED <<res, hist>>
       \/ Finish(Exception("ConfigException", 0))
    /\ UNCHANGED <<request, body, jobs, op, apiCalls, podVars>>

\* what the API server accepts as a job
ValidJob(job) ==
    /\ job.metadata.name # None
    /\ job.spec.template.spec.containers[1].image # None

\* lines 200-203
CreateRequestRetrying ==
    /\ jpc = "request"
    /\ op = "create"
    /\ Len(apiCalls) < 3
    /\ apiCalls' = Append(apiCalls,
          [ verb |-> "create_namespaced_job", namespace |-> Namespace(request),
            name |-> body.job.metadata.name ])
    /\ LET key == <<Namespace(request), body.job.metadata.name>>
       IN  \/ /\ key \notin jobs
              /\ ValidJob(body.job)
              /\ jobs' = jobs \cup {key}
              /\ Finish(Returned)
           \/ /\ UNCHANGED <<jobs, jpc, res, hist>>
    /\ UNCHANGED <<request, body, op, authCalls, podVars>>

CreateRequest ==
    /\ jpc = "request"
    /\ op = "create"
    /\ apiCalls' = Append(apiCalls,
          [ verb |-> "create_namespaced_job", namespace |-> Namespace(request),
            name |-> body.job.metadata.name ])
    /\ LET key == <<Namespace(request), body.job.metadata.name>>
       IN  \/ /\ key \notin jobs
              /\ ValidJob(body.job)
              /\ jobs' = jobs \cup {key}
              /\ Finish(Returned)
           \/ /\ key \in jobs
              /\ UNCHANGED jobs
              /\ Finish(Exception("ApiException", 409))
           \/ /\ ~ValidJob(body.job)
              /\ UNCHANGED jobs
              /\ Finish(Exception("ApiException", 422))
           \/ /\ UNCHANGED jobs
              /\ Finish(Exception("ApiException", 500))
    /\ UNCHANGED <<request, body, op, authCalls, podVars>>

\* lines 208-216
DeleteRequestQuiet ==
    /\ jpc = "request"
    /\ op = "delete"
    /\ apiCalls' = Append(apiCalls,
          [ verb |-> "delete_namespaced_job", namespace |-> Namespace(request),
            name |-> request.name, propagation_policy |-> "Background",
            grace_period_seconds |-> 0 ])
    /\ jobs' = jobs \ {<<Namespace(request), request.name>>}
    /\ Finish(Returned)
    /\ UNCHANGED <<request, body, op, authCalls, podVars>>

DeleteRequest ==
    /\ jpc = "request"
    /\ op = "delete"
    /\ apiCalls' = Append(apiCalls,
          [ verb |-> "delete_namespaced_job", namespace |-> Namespace(request),
            name |-> request.name, propagation_policy |-> "Background",
            grace_period_seconds |-> 0 ])
    /\ LET key == <<Namespace(request), request.name>>
       IN  \/ /\ key \in jobs
              /\ jobs' = jobs \ {key}
              /\ Finish(Returned)
           \/ /\ key \notin jobs
              /\ UNCHANGED jobs
              /\ Finish(Exception("ApiException", 404))
           \/ /\ UNCHANGED jobs
              /\ Finish(Exception("ApiException", 500))
    /\ UNCHANGED <<request, body, op, authCalls, podVars>>

InitJob ==
    /\ request = NoRequest
    /\ body = NotBuilt
    /\ jobs \in SUBSET (Namespaces \X JobNames)
    /\ InitJobVars
    /\ cluster = [p \in PodNames |-> Absent]
    /\ InitPodVars

NextJob ==
    \/ CallCreateJob
    \/ CallDeleteJob
    \/ CreateBuild
    \/ LoadConfig
    \/ CreateRequest
    \/ DeleteRequest

SpecJob == InitJob /\ [][NextJob]_vars

(***************************************************************************)
(* kube_delete_empty_pods against the API server.  Between invocations     *)
(* the cluster changes on its own: pods appear, finish and disappear.      *)
(* Each client call hands back its result, or raises ApiException, at the  *)
(* statement that makes it, as the function's use of the result assumes;   *)
(* a delete that succeeds removes the pod at once.                         *)
(***************************************************************************)
\* list_namespaced_pod: the pods of the namespace, by name
RECURSIVE ListFrom(_, _, _)
ListFrom(c, nsp, p) ==
    IF p > MaxPods THEN <<>>
    ELSE IF NsOf(p) = nsp /\ c[p] # Absent
         THEN <<[name |-> p, phase |-> c[p]]>> \o ListFrom(c, nsp, p + 1)
         ELSE ListFrom(c, nsp, p + 1)

list_namespaced_pod(c, nsp) == ListFrom(c, nsp, 1)

\* every delete call of the invocation succeeded
NoFailedDelete == \A k \in 1..Len(log) : log[k] # "failed"

\* lines 23-35
CallDeleteEmptyPods ==
    /\ ppc = "idle"
    /\ \E nsp \in {None, "default", "owl"}, ph \in {None, "Succeeded", "Failed"} :
         LET t == [ namespace |-> OrDefault(nsp, "default"),
                    phase |-> OrDefault(ph, "Succeeded") ]
         IN  /\ target' = t
             /\ again' = (last.returned /\ t = last.target /\ ~created)
             /\ againClean' = ( /\ last.returned
                                /\ t = last.target
                                /\ last.clean
                                /\ ~created
                                /\ ~changed )
    /\ ppc' = "list"
    /\ UNCHANGED <<cluster, pods, idx, deleteCalls, log, pres, last, created, changed>>
    /\ UNCHANGED <<buildVars, jobVars>>

\* lines 37-40: the ApiException of the list call is logged, and the
\* function goes on with pods never assigned
ListPods ==
    /\ ppc = "list"
    /\ \/ pods' = PodList(list_namespaced_pod(cluster, target.namespace))
       \/ pods' = Unbound
    /\ ppc' = "loop"
    /\ UNCHANGED <<cluster, target, idx, deleteCalls, log, pres, last, created, changed, again, againClean>>
    /\ UNCHANGED <<buildVars, jobVars>>

\* line 42 with pods unbound: pods.items raises UnboundLocalError
LoopUnbound ==
    /\ ppc = "loop"
    /\ ~pods.bound
    /\ ppc' = "raised"
    /\ pres' = [exc |-> "UnboundLocalError", value |-> PyNone]
    /\ UNCHANGED <<cluster, target, pods, idx, deleteCalls, log, last, created, changed, again, againClean>>
    /\ UNCHANGED <<buildVars, jobVars>>

\* lines 42-61, one iteration, with the return of line 63 indented into the loop
LoopStepReturning ==
    /\ ppc = "loop"
    /\ pods.bound
    /\ idx <= Len(pods.items)
    /\ LET pod == pods.items[idx]
       IN  IF pod.phase = target.phase
           THEN /\ deleteCalls' = Append(deleteCalls, pod.name)
                /\ \/ /\ cluster' = [cluster EXCEPT ![pod.name] = Absent]
                      /\ log' = Append(log, "deleted")
                   \/ /\ log' = Append(log, "failed")
                      /\ UNCHANGED cluster
           ELSE /\ log' = Append(log, "skipped")
                /\ UNCHANGED <<cluster, deleteCalls>>
    /\ idx' = idx + 1
    /\ ppc' = "returned"
    /\ pres' = [exc |-> "none", value |-> PyNone]
    /\ UNCHANGED <<target, pods, last, created, changed, again, againClean>>
    /\ UNCHANGED <<buildVars, jobVars>>

\* lines 42-61, one iteration, without the try/except of lines 45 and 58
LoopStepUncaught ==
    /\ ppc = "loop"
    /\ pods.bound
    /\ idx <= Len(pods.items)
    /\ LET pod == pods.items[idx]
       IN  IF pod.phase = target.phase
           THEN /\ deleteCalls' = Append(deleteCalls, pod.name)
                /\ \/ /\ cluster' = [cluster EXCEPT ![pod.name] = Absent]
                      /\ log' = Append(log, "deleted")
                      /\ UNCHANGED <<ppc, pres>>
                   \/ /\ log' = Append(log, "failed")
                      /\ ppc' = "raised"
                      /\ pres' = [exc |-> "ApiException", value |-> PyNone]
                      /\ UNCHANGED cluster
           ELSE /\ log' = Append(log, "skipped")
                /\ UNCHANGED <<cluster, deleteCalls, ppc, pres>>
    /\ idx' = idx + 1
    /\ UNCHANGED <<target, pods, last, created, changed, again, againClean>>
    /\ UNCHANGED <<buildVars, jobVars>>

\* lines 42-61, one iteration, with the test of line 46 dropped
LoopStepUnfiltered ==
    /\ ppc = "loop"
    /\ pods.bound
    /\ idx <= Len(pods.items)
    /\ LET pod == pods.items[idx]
       IN  /\ deleteCalls' = Append(deleteCalls, pod.name)
           /\ \/ /\ cluster' = [cluster EXCEPT ![pod.name] = Absent]
                 /\ log' = Append(log, "deleted")
              \/ /\ log' = Append(log, "failed")
                 /\ UNCHANGED cluster
    /\ idx' = idx + 1
    /\ UNCHANGED <<ppc, target, pods, pres, last, created, changed, again, againClean>>
    /\ UNCHANGED <<buildVars, jobVars>>

\* lines 42-61, one iteration of the for loop: the delete call of line 47
\* either succeeds (the pod is gone, line 50 logs it) or raises the
\* ApiException that line 58 catches and line 59 logs
LoopStep ==
    /\ ppc = "loop"
    /\ pods.bound
    /\ idx <= Len(pods.items)
    /\ LET pod == pods.items[idx]
       IN  IF pod.phase = target.phase
           THEN /\ deleteCalls' = Append(deleteCalls, pod.name)
                /\ \/ /\ cluster' = [cluster EXCEPT ![pod.name] = Absent]
                      /\ log' = Append(log, "deleted")
                   \/ /\ log' = Append(log, "failed")
                      /\ UNCHANGED cluster
           ELSE /\ log' = Append(log, "skipped")
                /\ UNCHANGED <<cluster, deleteCalls>>
    /\ idx' = idx + 1
    /\ UNCHANGED <<ppc, target, pods, pres, last, created, changed, again, againClean>>
    /\ UNCHANGED <<buildVars, jobVars>>

\* line 63, with a count of the deleted pods returned
ReturnCounting ==
    /\ ppc = "loop"
    /\ pods.bound
    /\ idx > Len(pods.items)
    /\ ppc' = "returned"
    /\ pres' = [exc |-> "none",
                value |-> PyInt(Cardinality({k \in 1..Len(log) : log[k] = "deleted"}))]
    /\ UNCHANGED <<cluster, target, pods, idx, deleteCalls, log, last, created, changed, again, againClean>>
    /\ UNCHANGED <<buildVars, jobVars>>

\* line 63: a bare return
Return ==
    /\ ppc = "loop"
    /\ pods.bound
    /\ idx > Len(pods.items)
    /\ ppc' = "returned"
    /\ pres' = [exc |-> "none", value |-> PyNone]
    /\ UNCHANGED <<cluster, target, pods, idx, deleteCalls, log, last, created, changed, again, againClean>>
    /\ UNCHANGED <<buildVars, jobVars>>

\* the caller has the result; the frame and its locals are gone
Exit ==
    /\ ppc \in {"returned", "raised"}
    /\ last' = [ returned |-> (ppc = "returned"), target |-> target,
                 clean |-> (ppc = "returned" /\ NoFailedDelete),
                 deleted |-> Cardinality({k \in 1..Len(log) : log[k] = "deleted"}) ]
    /\ ppc' = "idle"
    /\ target' = NoTarget
    /\ pods' = Unbound
    /\ idx' = 1
    /\ deleteCalls' = <<>>
    /\ log' = <<>>
    /\ pres' = PodsPending
    /\ created' = FALSE
    /\ changed' = FALSE
    /\ again' = FALSE
    /\ againClean' = FALSE
    /\ UNCHANGED cluster
    /\ UNCHANGED <<buildVars, jobVars>>

\* the cluster, between invocations
PodAppears ==
    /\ ppc = "idle"
    /\ \E p \in PodNames :
         /\ cluster[p] = Absent
         /\ cluster' = [cluster EXCEPT ![p] = "Running"]
    /\ created' = TRUE
    /\ UNCHANGED <<ppc, target, pods, idx, deleteCalls, log, pres, last, changed, again, againClean>>
    /\ UNCHANGED <<buildVars, jobVars>>

PodFinishes ==
    /\ ppc = "idle"
    /\ \E p \in PodNames, ph \in {"Succeeded", "Failed"} :
         /\ cluster[p] = "Running"
         /\ cluster' = [cluster EXCEPT ![p] = ph]
    /\ changed' = TRUE
    /\ UNCHANGED <<ppc, target, pods, idx, deleteCalls, log, pres, last, created, again, againClean>>
    /\ UNCHANGED <<buildVars, jobVars>>

PodVanishes ==
    /\ ppc = "idle"
    /\ \E p \in PodNames :
         /\ cluster[p] # Absent
         /\ cluster' = [cluster EXCEPT ![p] = Absent]
    /\ UNCHANGED <<ppc, target, pods, idx, deleteCalls, log, pres, last, created, changed, again, againClean>>
    /\ UNCHANGED <<buildVars, jobVars>>

InitPods ==
    /\ request = NoRequest
    /\ body = NotBuilt
    /\ jobs = {}
    /\ InitJobVars
    /\ cluster \in [PodNames -> PodPhases \cup {Absent}]
    /\ InitPodVars

NextPods ==
    \/ CallDeleteEmptyPods
    \/ ListPods
    \/ LoopUnbound
    \/ LoopStep
    \/ Return
    \/ Exit
    \/ PodAppears
    \/ PodFinishes
    \/ PodVanishes

SpecPods == InitPods /\ [][NextPods]_vars

(***************************************************************************)
(* Properties of kube_delete_empty_pods (SpecPods).                        *)
(***************************************************************************)
Listed == 1..Len(pods.items)
Matches(k) == pods.items[k].phase = target.phase
Called(p) == \E j \in 1..Len(deleteCalls) : deleteCalls[j] = p
Logged(what) == {k \in 1..Len(log) : log[k] = what}

\* C1: of the pods the list call returned, exactly those whose phase equals
\* the target phase get a delete call, each at most once; once the loop has
\* passed a pod it has been called for iff it matched, and no pod that was
\* not listed or not yet reached has been called for.
C1_DeleteIffPhaseMatches ==
    pods.bound =>
        /\ \A k \in Listed :
             Called(pods.items[k].name) <=> (k < idx /\ Matches(k))
        /\ \A j \in 1..Len(deleteCalls) :
             \E k \in Listed : pods.items[k].name = deleteCalls[j]
        /\ \A i, j \in 1..Len(deleteCalls) :
             i # j => deleteCalls[i] # deleteCalls[j]
        /\ ppc = "returned" => idx = Len(pods.items) + 1

C1_Witness ==
    /\ ppc = "returned"
    /\ \E k \in Listed : Matches(k) /\ Called(pods.items[k].name)
    /\ \E k \in Listed : ~Matches(k) /\ ~Called(pods.items[k].name)

\* C2: once a delete call has failed, the invocation never ends by an
\* exception, and it returns only after the loop went through every listed
\* pod, each matching one having had its delete call.
C2_DeleteFailureDoesNotAbort ==
    Logged("failed") # {} =>
        /\ ppc # "raised"
        /\ pres.exc \in {"pending", "none"}
        /\ ppc = "returned" =>
             /\ Len(log) = Len(pods.items)
             /\ \A k \in Listed : Matches(k) => Called(pods.items[k].name)

C2_Witness ==
    /\ ppc = "returned"
    /\ \E j, k \in 1..Len(log) :
         /\ j < k
         /\ log[j] = "failed"
         /\ log[k] = "deleted"

\* C3, as claimed: the value returned is the number of pods deleted.
C3_ReturnsDeletedCount ==
    ppc = "returned" => pres.value = PyInt(Cardinality(Logged("deleted")))

\* C3, amended: the function returns None, whatever it deleted; the pods it
\* removed from the cluster number the listed pods that matched the target
\* phase less those whose delete call failed.
C3_ReturnsNoneAfterDeleting ==
    ppc = "returned" =>
        /\ pres.value = PyNone
        /\ Cardinality({k \in Listed : cluster[pods.items[k].name] = Absent})
             = Cardinality({k \in Listed : Matches(k)})
                 - Cardinality(Logged("failed"))
        /\ \A k \in Listed :
             cluster[pods.items[k].name] = Absent <=> log[k] = "deleted"

C3_Witness ==
    /\ ppc = "returned"
    /\ Len(pods.items) = 3
    /\ pods.items[1].phase = "Succeeded"
    /\ pods.items[2].phase = "Succeeded"
    /\ pods.items[3].phase = "Running"
    /\ target.phase = "Succeeded"
    /\ log = <<"deleted", "failed", "skipped">>
    /\ pres.value = PyNone

\* C4, as claimed: when the list call fails the invocation ends with
\* ListError, without a delete call.
C4_ListFailureRaisesListError ==
    (ppc \in {"returned", "raised"} /\ ~pods.bound) =>
        /\ ppc = "raised"
        /\ pres.exc = "ListError"
        /\ deleteCalls = <<>>

BuildFailed == body.exc \notin {"none", "pending"}
Finished == jpc \in {"returned", "raised"}

C7_OneCreateCallNoRetry ==
    op = "create" =>
        /\ Len(apiCalls) <= 1
        /\ jpc = "returned" => Len(apiCalls) = 1
        /\ res.exc = "ApiException" => (jpc = "raised" /\ Len(apiCalls) = 1)
        /\ (jpc = "raised" /\ body.exc = "none" /\ res.exc # "ConfigException") =>
             (res.exc = "ApiException" /\ Len(apiCalls) = 1)
        /\ \A i \in 1..Len(apiCalls) : apiCalls[i].verb = "create_namespaced_job"

C7_Witness ==
    /\ op = "create"
    /\ jpc = "raised"
    /\ res = Exception("ApiException", 409)
    /\ Len(apiCalls) = 1
    /\ Len(hist) = 2
    /\ hist[1] = [ op |-> "create", namespace |-> Namespace(request),
                   name |-> request.name, ok |-> TRUE ]

\* the last two finished invocations are deleteJob(n), deleteJob(n) in one
\* namespace, the first having succeeded; the second is the one in res
DoubleDelete ==
    /\ op = "delete"
    /\ Finished
    /\ Len(hist) = 2
    /\ hist[1].op = "delete"
    /\ hist[1].ok
    /\ hist[2].op = "delete"
    /\ hist[2].namespace = hist[1].namespace
    /\ hist[2].name = hist[1].name

DeletionCall ==
    [ verb |-> "delete_namespaced_job", namespace |-> Namespace(request),
      name |-> request.name, propagation_policy |-> "Background",
      grace_period_seconds |-> 0 ]

\* the last two finished invocations are createJob(n), deleteJob(n) in one
\* namespace, the createJob having succeeded; the deleteJob is the one in res
CreateThenDelete ==
    /\ op = "delete"
    /\ Finished
    /\ Len(hist) = 2
    /\ hist[1] = [ op |-> "create", namespace |-> Namespace(request),
                   name |-> request.name, ok |-> TRUE ]

\* neither the credentials nor the API server failed for another reason
NoOtherFailure == res.exc # "ConfigException" /\ res.status # 500

\* C8, as claimed: after createJob(n) the first deleteJob(n) succeeds and the
\* second fails with NotFoundError, and each deleteJob issues exactly one
\* deletion call, with background propagation and zero grace period.
C8_SecondDeleteRaisesNotFoundError ==
    /\ (CreateThenDelete /\ NoOtherFailure) => jpc = "returned"
    /\ (DoubleDelete /\ NoOtherFailure) =>
         (jpc = "raised" /\ res.exc = "NotFoundError")
    /\ (op = "delete" /\ Finished /\ res.exc # "ConfigException") =>
         apiCalls = <<DeletionCall>>

\* C8, amended: after createJob(n) the first deleteJob(n) succeeds and the
\* second never returns: it raises the client's ApiException with status
\* 404, the exception type of every other API failure.  A deleteJob whose
\* credentials loaded has issued exactly one deletion call, with background
\* propagation and zero grace period, when it ends.
C8_SecondDeleteRaisesApiException404 ==
    /\ (CreateThenDelete /\ NoOtherFailure) =>
         (jpc = "returned" /\ <<Namespace(request), request.name>> \notin jobs)
    /\ DoubleDelete => (jpc = "raised" /\ ~hist[2].ok)
    /\ (DoubleDelete /\ NoOtherFailure) => res = Exception("ApiException", 404)
    /\ (op = "delete" /\ Finished /\ res.exc # "ConfigException") =>
         (authCalls = 1 /\ apiCalls = <<DeletionCall>>)

C8_Witness ==
    /\ DoubleDelete
    /\ res = Exception("ApiException", 404)
    /\ apiCalls = <<DeletionCall>>

(***************************************************************************)
(* Properties of kube_create_job_object (SpecBuild).                       *)
(***************************************************************************)
Container == body.job.spec.template.spec.containers[1]
UserItems == EnvOrEmpty(request.env_vars)

\* what str() shows of each value the requests carry
Shown(v) ==
    CASE v = PyInt(-12) -> "-12"
      [] v = PyStr("x") -> "x"
      [] v = PyInt(2) -> "2"
      [] v = PyStr("4Gi") -> "4Gi"
      [] v = PyStr("2500m") -> "2500m"
      [] v = PyInt(8192) -> "8192"

\* C6: the env list of the built container is the user's entries, in their
\* order, each value shown as a string, followed exactly when resources is
\* given by CPU_REQUESTS, MEM_REQUESTS, CPU_LIMITS, MEM_LIMITS in that
\* order; without resources the container carries no resource requirements.
C6_EnvIsUserThenResources ==
    body.exc = "none" =>
        LET env == Container.env
            r == request.extraConfig.resources
        IN  /\ \A i \in 1..Len(UserItems) :
                 /\ i <= Len(env)
                 /\ env[i] = [name |-> UserItems[i][1], value |-> Shown(UserItems[i][2])]
            /\ IF r.kind = "None"
               THEN /\ Len(env) = Len(UserItems)
                    /\ Container.resources = NoDict
               ELSE /\ Len(env) = Len(UserItems) + 4
                    /\ env[Len(UserItems) + 1] = [name |-> "CPU_REQUESTS", value |-> Shown(r.d.requests.cpu)]
                    /\ env[Len(UserItems) + 2] = [name |-> "MEM_REQUESTS", value |-> Shown(r.d.requests.memory)]
                    /\ env[Len(UserItems) + 3] = [name |-> "CPU_LIMITS", value |-> Shown(r.d.limits.cpu)]
                    /\ env[Len(UserItems) + 4] = [name |-> "MEM_LIMITS", value |-> Shown(r.d.limits.memory)]
                    /\ Container.resources # NoDict

C6_Witness ==
    /\ body.exc = "none"
    /\ Len(UserItems) = 2
    /\ request.extraConfig.resources = Dict(FullResources)
    /\ Len(Container.env) = 6
    /\ Container.env[6].name = "MEM_LIMITS"

\* C10: every job the builder returns has one container in its pod
\* template, restart policy Never, a termination grace period of 30, a
\* retention of 300 after it finished and a backoff limit of 2.
C10_FixedJobSpec ==
    body.exc = "none" =>
        /\ Len(body.job.spec.template.spec.containers) = 1
        /\ body.job.spec.template.spec.restart_policy = "Never"
        /\ body.job.spec.template.spec.termination_grace_period_seconds = 30
        /\ body.job.spec.ttl_seconds_after_finished = 300
        /\ body.job.spec.backoff_limit = 2

C10_Witness ==
    /\ body.exc = "none"
    /\ request.extraConfig.resources = Dict(FullResources)
    /\ request.extraConfig.volumeMounts = <<GoodMount>>
    /\ request.extraConfig.node_selector # NoDict
    /\ request.image = None
    /\ Len(body.job.spec.template.spec.containers) = 1

=============================================================================
